---- MODULE Spec2Model ----
(***************************************************************************)
(* State-machine model of the RAG command line tool (index.js).            *)
(*                                                                         *)
(* One RAGSystem instance lives in one process.  Its only mutable field is *)
(* vectorStore (null, a handle on the remote Qdrant collection, or a       *)
(* MemoryVectorStore).  The Qdrant collection outlives the process, the    *)
(* MemoryVectorStore does not.  Each handler (ingestPDF, query,            *)
(* listDocuments, clearDatabase) together with its CLI command action is   *)
(* one atomic action.  Texts are modelled by their length in characters and*)
(* have no separator characters, so the recursive splitter cuts them into  *)
(* windows of chunkSize characters that overlap by chunkOverlap.           *)
(* The ingested_at timestamp is not modelled: no handler reads it.         *)
(* The stores, the loader and the splitter are the libraries index.js      *)
(* calls; they are modelled by what they do at the call sites: both stores *)
(* append without deduplication, the memory store answers a search with    *)
(* slice(0, k) of its ranking, the remote store refuses a search when it   *)
(* is unreachable or the limit is no positive integer, and only the remote *)
(* store has the client that clearDatabase uses.                           *)
(***************************************************************************)
EXTENDS Integers, Sequences, FiniteSets, TLC

\* ------------------------------------------------------------------------
\* Program constants
chunkSize == 1000
chunkOverlap == 200
ListSample == 100
DefaultNumResults == 4

\* Bound of the model: ingest runs that one store may hold at a time.
MaxIngests == 2

\* ------------------------------------------------------------------------
\* The environment's inputs: files on disk (a path is its sequence of
\* components, a PDF is the sequence of its pages' text lengths), and the
\* strings given to --num-results (sequences of characters).
ReportPath == <<"report.pdf">>
BigPath == <<"docs", "big.pdf">>
BlankPath == <<"blank.pdf">>
MissingPath == <<"docs", "missing.pdf">>

Paths == {ReportPath, BigPath, BlankPath, MissingPath}

PdfPages(p) ==
  IF p = ReportPath THEN <<1800, 1001, 1000>>
  ELSE IF p = BigPath THEN <<81000>>
  ELSE <<0>>

NumOptions ==
  { <<"4">>, <<"2">>, <<"0">>, <<"-", "1">>, <<"2", "x">>, <<"a">>,
    <<"1", "0", "1">> }

RankOrders == {"asc", "desc"}

\* ------------------------------------------------------------------------
\* fs.existsSync(filePath)
existsSync(p) == p \in Paths \ {MissingPath}

\* path.basename(filePath): the last component of the path
basename(p) == p[Len(p)]

\* JavaScript numbers as far as the program meets them: an integer or NaN
Num(n) == [nan |-> FALSE, n |-> n]
NaN == [nan |-> TRUE, n |-> 0]

DigitVal(c) ==
  CASE c = "0" -> 0 [] c = "1" -> 1 [] c = "2" -> 2 [] c = "3" -> 3
    [] c = "4" -> 4 [] c = "5" -> 5 [] c = "6" -> 6 [] c = "7" -> 7
    [] c = "8" -> 8 [] c = "9" -> 9 [] OTHER -> -1

RECURSIVE ParseDigits(_, _, _, _)
\* the longest prefix of decimal digits of str from position i on:
\* acc is its value so far, seen says whether a digit was read
ParseDigits(str, i, acc, seen) ==
  IF i > Len(str) \/ DigitVal(str[i]) < 0
    THEN [seen |-> seen, n |-> acc]
    ELSE ParseDigits(str, i + 1, acc * 10 + DigitVal(str[i]), TRUE)

\* parseInt(options.numResults): optional sign, then decimal digits; what
\* follows the digits is ignored; NaN when there is no digit
parseInt(str) ==
  LET neg == Len(str) > 0 /\ str[1] = "-"
      signed == Len(str) > 0 /\ str[1] \in {"-", "+"}
      d == ParseDigits(str, IF signed THEN 2 ELSE 1, 0, FALSE)
  IN IF d.seen THEN Num(IF neg THEN 0 - d.n ELSE d.n) ELSE NaN


\* ------------------------------------------------------------------------
\* Small helpers
Min(a, b) == IF a < b THEN a ELSE b
Max(a, b) == IF a > b THEN a ELSE b
Reverse(s) == [i \in 1..Len(s) |-> s[Len(s) + 1 - i]]

\* ------------------------------------------------------------------------
\* Document loader and chunker

\* new PDFLoader(filePath).load(): one document per page that has text,
\* tagged with its 1-based page number
RECURSIVE loadPages(_, _)
loadPages(pages, i) ==
  IF i > Len(pages) THEN <<>>
  ELSE (IF pages[i] = 0 THEN <<>> ELSE <<[page |-> i, len |-> pages[i]]>>)
       \o loadPages(pages, i + 1)

load(p) == loadPages(PdfPages(p), 1)

\* RecursiveCharacterTextSplitter on a text of len characters without
\* separators: a window is emitted when it holds chunkSize characters, and
\* the next one starts with the last chunkOverlap characters of it, so the
\* windows start every chunkSize - chunkOverlap characters and the last one
\* ends with the text
mergeSplits(len) ==
  LET stride == chunkSize - chunkOverlap
      n == IF len <= chunkSize THEN 1
           ELSE 1 + ((len - chunkSize) + stride - 1) \div stride
  IN [j \in 1..n |->
        [from |-> (j - 1) * stride,
         to |-> Min((j - 1) * stride + chunkSize, len)]]

splitText(len) == IF len = 0 THEN <<>> ELSE mergeSplits(len)

RECURSIVE splitDocuments(_, _)
\* textSplitter.splitDocuments(docs): every page is split on its own, the
\* chunks keep the page's metadata and follow in page order
splitDocuments(docs, i) ==
  IF i > Len(docs) THEN <<>>
  ELSE LET w == splitText(docs[i].len)
       IN [j \in 1..Len(w) |->
             [page |-> docs[i].page, from |-> w[j].from, to |-> w[j].to]]
          \o splitDocuments(docs, i + 1)

\* a mutant of chunkId: the index restarts on every page
chunkId_perPage(splitDocs, i) ==
  Cardinality({j \in 1..(i - 1) : splitDocs[j].page = splitDocs[i].page})

\* chunk_id: index, the 0-based position given by forEach
chunkId(splitDocs, i) == i - 1

\* splitDocs.forEach((doc, index) => doc.metadata = {...})
addMetadata(splitDocs, p) ==
  [i \in 1..Len(splitDocs) |->
     [source |-> basename(p), chunk_id |-> chunkId(splitDocs, i),
      page |-> splitDocs[i].page, from |-> splitDocs[i].from,
      to |-> splitDocs[i].to]]

\* the chunks an ingest of path p hands to the store
Chunks(p) == addMetadata(splitDocuments(load(p), 1), p)

\* ------------------------------------------------------------------------
\* State
VARIABLES
  vectorStore,      \* this.vectorStore: "null", "qdrant" or "memory"
  qdrant,           \* the records of the remote collection rag-documents
  memoryVectors,    \* the records of the process's MemoryVectorStore
  connectAttempts,  \* calls of initializeVectorStore in this process
  qdrantUp,         \* the vector database at 127.0.0.1:6333 answers
  ollamaUp,         \* the model server at 127.0.0.1:11434 answers
  exitCode,         \* exit code the last command leaves, -1 before any
  lastCall,         \* what the last handler call did and printed
  twin              \* two instances driven in lockstep (SpecPair only)

vars ==
  <<vectorStore, qdrant, memoryVectors, connectAttempts, qdrantUp, ollamaUp,
    exitCode, lastCall, twin>>

\* The part of the state a handler works on
World ==
  [vectorStore |-> vectorStore, qdrant |-> qdrant,
   memoryVectors |-> memoryVectors, connectAttempts |-> connectAttempts]

NewWorld(q) ==
  [vectorStore |-> "null", qdrant |-> q, memoryVectors |-> <<>>,
   connectAttempts |-> 0]

\* The records of the store the instance holds
StoreOf(w) ==
  IF w.vectorStore = "qdrant" THEN w.qdrant
  ELSE IF w.vectorStore = "memory" THEN w.memoryVectors
  ELSE <<>>

\* What a handler call leaves: the world after it, whether it threw to its
\* caller, whether one of its catch blocks ran, the steps it took, and what
\* it printed
Outcome(w, threw, caught, steps) ==
  [w |-> w, threw |-> threw, caught |-> caught, steps |-> steps,
   requested |-> NaN, sourceDocuments |-> <<>>, listed |-> FALSE,
   sources |-> <<>>, chunks |-> 0]

\* ------------------------------------------------------------------------
\* Vector store adapter

\* a mutant of initializeVectorStore: the failed connection leaves no store
initializeVectorStore_noFallback(w, up) ==
  [w EXCEPT !.vectorStore = IF up THEN "qdrant" ELSE "null",
            !.connectAttempts = @ + 1]

\* initializeVectorStore(): fromExistingCollection, and on any error a new
\* empty MemoryVectorStore
initializeVectorStore(w, up) ==
  [w EXCEPT !.vectorStore = IF up THEN "qdrant" ELSE "memory",
            !.memoryVectors = IF up THEN @ ELSE <<>>,
            !.connectAttempts = @ + 1]

\* a mutant of needsInit: every handler call connects again
needsInit_always(vs) == TRUE

\* if (!this.vectorStore)
needsInit(vs) == vs = "null"

ensureVectorStore(w, up) ==
  IF needsInit(w.vectorStore) THEN initializeVectorStore(w, up) ELSE w

ConnectStep(w) == IF needsInit(w.vectorStore) THEN <<"connect">> ELSE <<>>

\* a mutant of appendRecords: chunks whose source is stored already are
\* skipped
appendRecords_dedup(store, docs) ==
  IF \E i \in 1..Len(store) : \E j \in 1..Len(docs) :
       store[i].source = docs[j].source
    THEN store
    ELSE store \o docs

\* both stores append the records given, under fresh ids
appendRecords(store, docs) == store \o docs

\* this.vectorStore.addDocuments(splitDocs): embeds the texts, then appends.
\* With no text to embed and the model server down the outcome depends on
\* the client's batching: emptyOk chooses it.
addDocuments(w, docs, qUp, oUp, emptyOk) ==
  LET embedded == oUp \/ (docs = <<>> /\ emptyOk)
      stored == w.vectorStore = "memory" \/ docs = <<>> \/ qUp
  IN IF w.vectorStore # "null" /\ embedded /\ stored
       THEN [ok |-> TRUE,
             w |-> IF w.vectorStore = "qdrant"
                     THEN [w EXCEPT !.qdrant = appendRecords(@, docs)]
                     ELSE [w EXCEPT !.memoryVectors = appendRecords(@, docs)]]
       ELSE [ok |-> FALSE, w |-> w]

\* the store's ranking of its records for a query: unspecified, here the
\* insertion order or its reverse
Ranked(store, ord) == IF ord = "asc" THEN store ELSE Reverse(store)

\* Array.prototype.slice(0, k)
jsSlice(s, k) ==
  LET end == IF k.nan THEN 0
             ELSE IF k.n < 0 THEN Max(Len(s) + k.n, 0)
             ELSE Min(k.n, Len(s))
  IN SubSeq(s, 1, end)

\* a mutant of similaritySearch: the store returns every record
similaritySearch_all(w, k, ord, qUp, oUp) ==
  LET ok == w.vectorStore # "null" /\ oUp /\ (w.vectorStore = "memory" \/ qUp)
  IN [ok |-> ok, docs |-> IF ok THEN Ranked(StoreOf(w), ord) ELSE <<>>]

\* this.vectorStore.similaritySearch(query, k): embeds the query, then the
\* memory store slices its ranking, and the remote store answers a search
\* request, which it refuses unless the limit is a positive integer
similaritySearch(w, k, ord, qUp, oUp) ==
  IF w.vectorStore = "null" \/ ~oUp THEN [ok |-> FALSE, docs |-> <<>>]
  ELSE IF w.vectorStore = "memory"
    THEN [ok |-> TRUE, docs |-> jsSlice(Ranked(w.memoryVectors, ord), k)]
  ELSE IF ~qUp \/ k.nan \/ k.n < 1
    THEN [ok |-> FALSE, docs |-> <<>>]
  ELSE [ok |-> TRUE, docs |-> SubSeq(Ranked(w.qdrant, ord), 1,
                                     Min(k.n, Len(w.qdrant)))]

\* ------------------------------------------------------------------------
\* The handlers of RAGSystem

\* a mutant of fileFound: the existence check is skipped
fileFound_unchecked(p) == TRUE

\* if (!fs.existsSync(filePath)) throw new Error(...)
fileFound(p) == existsSync(p)

\* the chunks of every path, computed once
ChunksOf == [p \in Paths |-> Chunks(p)]

\* async ingestPDF(filePath)
ingestPDF(w, p, qUp, oUp, emptyOk) ==
  IF ~fileFound(p)
    THEN Outcome(w, TRUE, TRUE, <<"existsSync">>)
    ELSE LET splitDocs == ChunksOf[p]
             w1 == ensureVectorStore(w, qUp)
             added == addDocuments(w1, splitDocs, qUp, oUp, emptyOk)
             steps == <<"existsSync", "load", "split">> \o ConnectStep(w)
                      \o <<"addDocuments">>
         IN Outcome(added.w, ~added.ok, ~added.ok, steps)

\* async query(question, numResults): the retriever asks the store for
\* numResults records, the chain sends them to the model and the handler
\* prints one "Source:" line for each
query(w, numResults, ord, qUp, oUp) ==
  LET w1 == ensureVectorStore(w, qUp)
      found == similaritySearch(w1, numResults, ord, qUp, oUp)
      ok == found.ok /\ oUp
      steps == ConnectStep(w) \o <<"similaritySearch">>
               \o (IF found.ok THEN <<"generate">> ELSE <<>>)
  IN [Outcome(w1, ~ok, ~ok, steps) EXCEPT
        !.requested = numResults,
        !.sourceDocuments = IF ok THEN found.docs ELSE <<>>]

\* a mutant of distinctSources: every record's source is listed
distinctSources_noSet(docs) == [i \in 1..Len(docs) |-> docs[i].source]

\* sources = new Set(); results.forEach(doc => sources.add(...)):
\* the sources in the order they are first met
distinctSources(docs) ==
  LET first == {i \in 1..Len(docs) :
                  \A j \in 1..(i - 1) : docs[j].source # docs[i].source}
      nth(n) == CHOOSE i \in first :
                  Cardinality({j \in first : j < i}) = n - 1
  IN [n \in 1..Cardinality(first) |-> docs[nth(n)].source]

\* async listDocuments(): its catch block logs and returns
listDocuments(w, ord, qUp, oUp) ==
  LET w1 == ensureVectorStore(w, qUp)
      results == similaritySearch(w1, Num(ListSample), ord, qUp, oUp)
      steps == ConnectStep(w) \o <<"similaritySearch">>
  IN [Outcome(w1, FALSE, ~results.ok, steps) EXCEPT
        !.listed = results.ok,
        !.sources = IF results.ok THEN distinctSources(results.docs) ELSE <<>>,
        !.chunks = IF results.ok THEN Len(results.docs) ELSE 0]

\* async clearDatabase(): this.vectorStore.client is the Qdrant client; a
\* MemoryVectorStore has no client, so the delete call on it throws; the
\* catch block logs and returns
clearDatabase(w, qUp) ==
  LET w1 == ensureVectorStore(w, qUp)
      ok == w1.vectorStore = "qdrant" /\ qUp
      steps == ConnectStep(w) \o <<"delete">>
  IN Outcome(IF ok THEN [w1 EXCEPT !.qdrant = <<>>] ELSE w1, FALSE, ~ok, steps)

\* the command actions: try { await rag.handler() } catch { process.exit(1) }
commandExit(o) == IF o.threw THEN 1 ELSE 0

\* ------------------------------------------------------------------------
\* The record kept of the last call: the command, its argument (the path of
\* an ingest, the --num-results string of a query) and what the handler did
Call(op, p, o) ==
  [op |-> op, path |-> p, threw |-> o.threw, caught |-> o.caught,
   steps |-> o.steps, requested |-> o.requested,
   sourceDocuments |-> o.sourceDocuments, listed |-> o.listed,
   sources |-> o.sources, chunks |-> o.chunks]

Idle(op) == Call(op, <<>>, Outcome(NewWorld(<<>>), FALSE, FALSE, <<>>))

\* ingest runs a store holds: every run that stored a chunk stored a first one
Blocks(store) == Cardinality({i \in 1..Len(store) : store[i].chunk_id = 0})

\* the bound of the model: a call that adds records needs a store that holds
\* fewer than MaxIngests runs
CanHold(w, after) ==
  \/ Len(StoreOf(after)) = Len(StoreOf(w))
  \/ Blocks(StoreOf(w)) < MaxIngests

Pair(wq, wm, cq, cm) == [q |-> wq, m |-> wm, cq |-> cq, cm |-> cm]

Init ==
  /\ vectorStore = "null"
  /\ qdrant = <<>>
  /\ memoryVectors = <<>>
  /\ connectAttempts = 0
  /\ qdrantUp \in BOOLEAN
  /\ ollamaUp \in BOOLEAN
  /\ exitCode = -1
  /\ lastCall = Idle("start")
  /\ twin = Pair(NewWorld(<<>>), NewWorld(<<>>), Idle("start"), Idle("start"))

\* a handler call o of command op takes effect
Commit(op, p, o) ==
  /\ vectorStore' = o.w.vectorStore
  /\ qdrant' = o.w.qdrant
  /\ memoryVectors' = o.w.memoryVectors
  /\ connectAttempts' = o.w.connectAttempts
  /\ exitCode' = commandExit(o)
  /\ lastCall' = Call(op, p, o)
  /\ UNCHANGED <<qdrantUp, ollamaUp, twin>>

\* rag-cli ingest <file>
Ingest ==
  \E p \in Paths, emptyOk \in BOOLEAN :
    LET o == ingestPDF(World, p, qdrantUp, ollamaUp, emptyOk)
    IN /\ CanHold(ensureVectorStore(World, qdrantUp), o.w)
       /\ Commit("ingest", p, o)

\* rag-cli query <question> -n <number>
Query ==
  \E str \in NumOptions, ord \in RankOrders :
    Commit("query", str,
           query(World, parseInt(str), ord, qdrantUp, ollamaUp))

\* rag.query(question): numResults takes its default
QueryDefault ==
  \E ord \in RankOrders :
    Commit("query", <<>>,
           query(World, Num(DefaultNumResults), ord, qdrantUp, ollamaUp))

\* rag-cli list
List ==
  \E ord \in RankOrders :
    Commit("list", <<>>, listDocuments(World, ord, qdrantUp, ollamaUp))

\* rag-cli clear
Clear == Commit("clear", <<>>, clearDatabase(World, qdrantUp))

\* the process ends and the next invocation constructs a new RAGSystem
NewProcess ==
  /\ lastCall.op # "start"
  /\ vectorStore' = "null"
  /\ memoryVectors' = <<>>
  /\ connectAttempts' = 0
  /\ exitCode' = -1
  /\ lastCall' = Idle("start")
  /\ UNCHANGED <<qdrant, qdrantUp, ollamaUp, twin>>

\* the vector database goes down or comes back
QdrantFlips ==
  /\ qdrantUp' = ~qdrantUp
  /\ lastCall' = Idle("env")
  /\ UNCHANGED <<vectorStore, qdrant, memoryVectors, connectAttempts,
                 ollamaUp, exitCode, twin>>

\* the model server goes down or comes back
OllamaFlips ==
  /\ ollamaUp' = ~ollamaUp
  /\ lastCall' = Idle("env")
  /\ UNCHANGED <<vectorStore, qdrant, memoryVectors, connectAttempts,
                 qdrantUp, exitCode, twin>>

Next ==
  \/ Ingest
  \/ Query
  \/ QueryDefault
  \/ List
  \/ Clear
  \/ NewProcess
  \/ QdrantFlips
  \/ OllamaFlips

Spec == Init /\ [][Next]_vars

\* ------------------------------------------------------------------------
\* Two instances given the same calls: twin.q found the remote collection
\* when it connected and its database stays reachable, twin.m did not and
\* holds the in-memory fallback.  twin.cq and twin.cm record the last call.
PairCommit(op, p, oq, om) ==
  /\ twin' = Pair(oq.w, om.w, Call(op, p, oq), Call(op, p, om))
  /\ UNCHANGED <<vectorStore, qdrant, memoryVectors, connectAttempts,
                 qdrantUp, ollamaUp, exitCode, lastCall>>

PairIngest ==
  \E p \in Paths, oUp \in BOOLEAN, emptyOk \in BOOLEAN :
    LET oq == ingestPDF(twin.q, p, TRUE, oUp, emptyOk)
        om == ingestPDF(twin.m, p, FALSE, oUp, emptyOk)
    IN /\ CanHold(ensureVectorStore(twin.q, TRUE), oq.w)
       /\ CanHold(ensureVectorStore(twin.m, FALSE), om.w)
       /\ PairCommit("ingest", p, oq, om)

PairQuery ==
  \E str \in NumOptions, ord \in RankOrders, oUp \in BOOLEAN :
    PairCommit("query", str,
               query(twin.q, parseInt(str), ord, TRUE, oUp),
               query(twin.m, parseInt(str), ord, FALSE, oUp))

PairList ==
  \E ord \in RankOrders, oUp \in BOOLEAN :
    PairCommit("list", <<>>,
               listDocuments(twin.q, ord, TRUE, oUp),
               listDocuments(twin.m, ord, FALSE, oUp))

PairClear ==
  PairCommit("clear", <<>>,
             clearDatabase(twin.q, TRUE), clearDatabase(twin.m, FALSE))

PairNext ==
  \/ PairIngest
  \/ PairQuery
  \/ PairList
  \/ PairClear

SpecPair == Init /\ [][PairNext]_vars

\* ------------------------------------------------------------------------
\* Properties

Commands == {"ingest", "query", "list", "clear"}

\* the records of the store the instance holds, now and after the step
Store == StoreOf(World)
StoreAfter == IF vectorStore' = "qdrant" THEN qdrant' ELSE memoryVectors'
\* the records the store of the step's call held before the call
StoreBefore ==
  IF vectorStore' = "qdrant" THEN qdrant
  ELSE IF vectorStore = "memory" THEN memoryVectors
  ELSE <<>>

CountSource(store, name) ==
  Cardinality({i \in 1..Len(store) : store[i].source = name})

SourcesIn(store) == {store[i].source : i \in 1..Len(store)}

\* C1: a command exits with code 0 only when its operation succeeded, and
\* with code 1 whenever a failure was caught during it.
C1_ExitCodeTellsFailure ==
  lastCall.op \in Commands =>
    /\ lastCall.caught => exitCode = 1
    /\ exitCode = 0 => ~lastCall.caught

\* C2: once the connection attempt has failed, every ingest of an existing
\* file and every query of the process succeeds while the model server
\* answers, an ingest appends its chunks to the in-memory store, and a
\* query cites records of that store, all of them when it asks for as many.
C2_FallbackServes ==
  [][(connectAttempts' > 0 /\ vectorStore' # "qdrant" /\ ollamaUp')
       => /\ (lastCall'.op = "ingest" /\ existsSync(lastCall'.path))
               => /\ ~lastCall'.threw
                  /\ vectorStore' = "memory"
                  /\ memoryVectors' = StoreBefore \o Chunks(lastCall'.path)
          /\ lastCall'.op = "query"
               => /\ ~lastCall'.threw
                  /\ vectorStore' = "memory"
                  /\ memoryVectors' = StoreBefore
                  /\ \A i \in 1..Len(lastCall'.sourceDocuments) :
                       \E j \in 1..Len(memoryVectors') :
                         lastCall'.sourceDocuments[i] = memoryVectors'[j]
                  /\ (~lastCall'.requested.nan
                      /\ lastCall'.requested.n >= Len(memoryVectors'))
                       => Len(lastCall'.sourceDocuments) = Len(memoryVectors')
     ]_vars

C2_Witness ==
  /\ vectorStore = "memory"
  /\ lastCall.op = "query"
  /\ ~lastCall.threw
  /\ Len(memoryVectors) = 5
  /\ Len(lastCall.sourceDocuments) = 5

\* C3: a list that follows a clear immediately reports no source and no
\* chunk, whichever store the instance holds.
C3_ClearThenListEmpty ==
  [][(lastCall.op = "clear" /\ lastCall'.op = "list" /\ lastCall'.listed)
       => lastCall'.chunks = 0 /\ lastCall'.sources = <<>>]_vars

\* C4: a successful ingest of F appends as many records as the chunker made
\* chunks of F, whatever the store holds: on an empty store the record count
\* is the chunk count, and on a store holding one ingest of F the records
\* whose source is F double.
C4_IngestAppendsChunks ==
  [][(lastCall'.op = "ingest" /\ ~lastCall'.threw)
       => LET F == lastCall'.path
              n == Len(Chunks(F))
              name == F[Len(F)]
          IN /\ Len(StoreAfter) = Len(StoreBefore) + n
             /\ CountSource(StoreAfter, name)
                  = CountSource(StoreBefore, name) + n
             /\ StoreBefore = <<>> => Len(StoreAfter) = n
             /\ StoreBefore = Chunks(F)
                  => CountSource(StoreAfter, name)
                       = 2 * CountSource(StoreBefore, name)
     ]_vars

C4_Witness ==
  /\ lastCall.op = "ingest"
  /\ ~lastCall.threw
  /\ lastCall.path = ReportPath
  /\ Len(Store) = 10
  /\ CountSource(Store, "report.pdf") = 10

\* C5 as claimed: for every value the option parser yields as k, a query
\* cites at most k records, and exactly k when the store holds that many.
C5_AtMostKForEveryParsedK ==
  (lastCall.op = "query" /\ ~lastCall.requested.nan)
    => /\ Len(lastCall.sourceDocuments) <= lastCall.requested.n
       /\ (~lastCall.threw /\ Len(Store) >= lastCall.requested.n)
            => Len(lastCall.sourceDocuments) = lastCall.requested.n

\* C5: for every query whose num-results k is a non-negative integer (the
\* default 4 included) the store is asked for k records, at most k are
\* cited, and exactly k when the query succeeds on a store holding that many.
C5_AtMostK ==
  (lastCall.op = "query" /\ ~lastCall.requested.nan
     /\ lastCall.requested.n >= 0)
    => /\ lastCall.requested
            = (IF lastCall.path = <<>> THEN Num(4) ELSE parseInt(lastCall.path))
       /\ Len(lastCall.sourceDocuments) <= lastCall.requested.n
       /\ (~lastCall.threw /\ Len(Store) >= lastCall.requested.n)
            => Len(lastCall.sourceDocuments) = lastCall.requested.n

C5_Witness ==
  /\ lastCall.op = "query"
  /\ lastCall.path = <<"2">>
  /\ ~lastCall.threw
  /\ Len(Store) = 5
  /\ Len(lastCall.sourceDocuments) = 2

\* C6: an ingest of a path that does not exist throws after the existence
\* check alone (nothing is loaded, no connection is attempted, nothing is
\* added), leaves the store handle and the records as they were, and the
\* command exits with code 1.
C6_MissingFileFailsFirst ==
  [][(lastCall'.op = "ingest" /\ lastCall'.path = MissingPath)
       => /\ lastCall'.threw
          /\ lastCall'.steps = <<"existsSync">>
          /\ exitCode' = 1
          /\ UNCHANGED <<vectorStore, qdrant, memoryVectors, connectAttempts>>
     ]_vars

C6_Witness ==
  /\ lastCall.op = "ingest"
  /\ lastCall.path = MissingPath
  /\ lastCall.threw
  /\ exitCode = 1
  /\ vectorStore = "null"
  /\ connectAttempts = 0

\* C7: a list that succeeds on a store of N records prints sources of stored
\* records, each once; for N <= 100 it prints every stored source and the
\* chunk count N, and for N > 100 the chunk count 100.
C7_ListReport ==
  (lastCall.op = "list" /\ lastCall.listed)
    => LET N == Len(Store)
           shown == lastCall.sources
       IN /\ \A i \in 1..Len(shown) : shown[i] \in SourcesIn(Store)
          /\ \A i, j \in 1..Len(shown) : shown[i] = shown[j] => i = j
          /\ N <= 100
               => /\ lastCall.chunks = N
                  /\ {shown[i] : i \in 1..Len(shown)} = SourcesIn(Store)
          /\ N > 100 => lastCall.chunks = 100

C7_Witness ==
  /\ lastCall.op = "list"
  /\ lastCall.listed
  /\ Len(Store) = 5
  /\ lastCall.sources = <<"report.pdf">>
  /\ lastCall.chunks = 5

C7_WitnessCapped ==
  /\ lastCall.op = "list"
  /\ lastCall.listed
  /\ Len(Store) = 106
  /\ lastCall.chunks = 100

\* C8: the two store variants are indistinguishable: given the same calls,
\* each call succeeds or fails alike on both and leaves the same records.
C8_VariantsAgree ==
  /\ twin.cq.threw = twin.cm.threw
  /\ twin.cq.caught = twin.cm.caught
  /\ StoreOf(twin.q) = StoreOf(twin.m)

\* C9: the chunks a successful ingest of F stores carry the base name of F
\* as source and the indices 0..n-1 in the order of the text: each chunk
\* lies on a later page than the one before it, or later on the same page.
C9_ChunkMetadata ==
  [][(lastCall'.op = "ingest" /\ ~lastCall'.threw)
       => LET F == lastCall'.path
              b == Len(StoreBefore)
              n == Len(StoreAfter) - b
              rec(i) == StoreAfter[b + i]
          IN /\ \A i \in 1..n :
                  /\ rec(i).source = F[Len(F)]
                  /\ rec(i).chunk_id = i - 1
             /\ \A i \in 1..(n - 1) :
                  \/ rec(i).page < rec(i + 1).page
                  \/ /\ rec(i).page = rec(i + 1).page
                     /\ rec(i).from < rec(i + 1).from
     ]_vars

C9_Witness ==
  /\ lastCall.op = "ingest"
  /\ ~lastCall.threw
  /\ lastCall.path = ReportPath
  /\ Len(Store) = 5
  /\ Store[5].chunk_id = 4
  /\ Store[5].page = 3
  /\ Store[1].page = 1

\* C10: within a process the connection is attempted at most once, and once
\* the instance holds a store no call replaces it, failed calls included.
C10_ConnectOnce ==
  [][lastCall'.op # "start"
       => /\ connectAttempts' <= 1
          /\ vectorStore # "null"
               => /\ vectorStore' = vectorStore
                  /\ connectAttempts' = connectAttempts
     ]_vars

C10_Witness ==
  /\ connectAttempts = 1
  /\ vectorStore = "memory"
  /\ lastCall.op = "query"
  /\ lastCall.threw
  /\ lastCall.steps = <<"similaritySearch">>

====
